---------------------------- MODULE Spec2Model ----------------------------
(***************************************************************************)
(* Model of the auth_service backend (Django REST): registration, login,   *)
(* and the password-reset flow of users/views.py, whose reset tokens live  *)
(* in the shared Redis cache configured in core/settings.py.               *)
(*                                                                         *)
(* reset_password is modelled in the three places where it touches shared  *)
(* state (cache.get, user load + save, cache.delete), so that concurrent   *)
(* requests interleave exactly there.  The other endpoints touch shared    *)
(* state once and are single steps.                                        *)
(*                                                                         *)
(* Modelling conventions:                                                  *)
(*  - get_random_string(32) draws one of 62^32 strings; it is modelled as  *)
(*    returning a string it has not returned before (variable issuedFor).  *)
(*  - The cache entry carries its remaining time to live; Advance lets     *)
(*    time pass and removes the entries whose time is up, as Redis does.   *)
(*  - out is the HTTP response produced by the step just taken (NoOutput   *)
(*    when the step answered nothing), together with its request.          *)
(*  - inflight is the bag of reset_password requests that have passed     *)
(*    cache.get and not answered yet, each with its local variables.       *)
(*  - issuedFor, age, redeemed, burnt, lastSave and the late and retry     *)
(*    flags are history variables: no action's guard or effect on users,   *)
(*    cache or a response reads them, except for the choice of a fresh     *)
(*    token.                                                               *)
(***************************************************************************)
EXTENDS Integers, Sequences, FiniteSets, Bags, TLC

VARIABLES users, cache, inflight, out, issuedFor, age, redeemed, burnt, lastSave

vars == <<users, cache, inflight, out, issuedFor, age, redeemed, burnt, lastSave>>

---------------------------------------------------------------------------
(* Bounds of the model *)

NumTokens == 2
MaxInFlight == 2

Tokens == 1..NumTokens

(* A request field that is missing or empty: Python's `not x` holds. *)
NoToken == 0
NoText == ""

(* The emails clients use, in the order in which they first register *)
EmailOrder == <<"user@test.com", "reset_test@test.com">>
Emails == {EmailOrder[i] : i \in DOMAIN EmailOrder}
EmailInputs == Emails \cup {NoText}
OldPassword == "pw12345678"
NewPassword == "newpw123456"
WeakPassword == "short"
LoginPasswords == {OldPassword, NewPassword}
ResetInputs ==
    {[token |-> t, pw |-> NewPassword] : t \in Tokens}
    \cup {[token |-> NoToken, pw |-> NewPassword], [token |-> 1, pw |-> NoText]}

---------------------------------------------------------------------------
(* Program constants *)

CACHE_PREFIX == "pwdreset:"
TOKEN_TIMEOUT == 10 * 60
MinPasswordLength == 8

(* The time that passes in one Advance step, in seconds. *)
TimeStep == TOKEN_TIMEOUT \div 2

---------------------------------------------------------------------------
(* Password hashing (Django's set_password / check_password): a one-way    *)
(* encoding that only a check against the same raw password matches.       *)

MakePassword(raw) == <<"pbkdf2_sha256", raw>>

CheckPassword(raw, encoded) == encoded = MakePassword(raw)

(* user.set_password(new_password); user.save() *)
UpdateKeepsPassword(us, uid, new_password) == us
UpdateEveryPassword(us, uid, new_password) ==
    [i \in DOMAIN us |-> [us[i] EXCEPT !.password = MakePassword(new_password)]]
UpdateUserPassword(us, uid, new_password) ==
    [us EXCEPT ![uid].password = MakePassword(new_password)]

---------------------------------------------------------------------------
(* Credential store: users is the table, the id of a row is its index. *)

UserIds == 1..Len(users)

(* User.objects.get(email=email): the id, or 0 for User.DoesNotExist *)
GetUserByEmail(email) ==
    IF \E i \in UserIds : users[i].email = email
    THEN CHOOSE i \in UserIds : users[i].email = email
    ELSE 0

(* The place of a row that has been deleted: ids are not given out again, *)
(* and no request names its email.                                        *)
Deleted == [email |-> NoText, password |-> <<>>, full_name |-> NoText]

(* User.objects.get(id=user_id) *)
UserExists(uid) == uid \in UserIds /\ users[uid] # Deleted

---------------------------------------------------------------------------
(* Reset-token cache *)

Absent == [uid |-> 0, ttl |-> 0]

CacheKey(token) == <<CACHE_PREFIX, token>>
CacheKeys == {CacheKey(t) : t \in Tokens}

(* cache.get(key): the stored value, or None (modelled as 0) *)
CacheGet(c, key) == IF key \in DOMAIN c THEN c[key].uid ELSE 0

(* cache.set(key, value, timeout=timeout) *)
CacheSetShortTimeout(c, key, value, timeout) ==
    [c EXCEPT ![key] = [uid |-> value, ttl |-> timeout \div 60]]
CacheSetLongTimeout(c, key, value, timeout) ==
    [c EXCEPT ![key] = [uid |-> value, ttl |-> timeout * 60]]
CacheSetRemapsAll(c, key, value, timeout) ==
    [k \in DOMAIN c |->
        IF k = key THEN [uid |-> value, ttl |-> timeout]
        ELSE IF c[k].uid = 0 THEN c[k]
        ELSE [c[k] EXCEPT !.uid = value]]
CacheSet(c, key, value, timeout) ==
    [c EXCEPT ![key] = [uid |-> value, ttl |-> timeout]]

(* cache.delete(key): removing an absent key is no error *)
CacheDeleteNothing(c, key) == c
CacheDeleteFlushes(c, key) == [k \in DOMAIN c |-> Absent]
CacheDeleteOfSameUser(c, key) ==
    [k \in DOMAIN c |-> IF c[k].uid = c[key].uid THEN Absent ELSE c[k]]
CacheDelete(c, key) ==
    IF key \in DOMAIN c THEN [c EXCEPT ![key] = Absent] ELSE c

CacheAfterKeepsAll(c, d) == c

(* The store's expiry after d seconds: every entry loses d seconds, and an *)
(* entry whose time is up is gone.                                         *)
CacheAfter(c, d) ==
    [k \in DOMAIN c |->
        IF c[k] = Absent THEN Absent
        ELSE IF c[k].ttl <= d THEN Absent
        ELSE [c[k] EXCEPT !.ttl = c[k].ttl - d]]

---------------------------------------------------------------------------
(* Responses *)

NoHistory == [late |-> FALSE, retry |-> FALSE, wrote |-> FALSE]

NoOutput == [req |-> [op |-> "none"], resp |-> [status |-> 0], hist |-> NoHistory]

Output(req, resp) == [req |-> req, resp |-> resp, hist |-> NoHistory]

RespEmailRequired == [status |-> 400, detail |-> "Email required"]
RespUserNotFoundAs404 == [status |-> 404, success |-> FALSE]
RespUserNotFound == [status |-> 200, success |-> FALSE]
RespTokenIssued(token) == [status |-> 200, success |-> TRUE, token |-> token]
RespFieldsRequired == [status |-> 400, detail |-> "token and password required"]
RespInvalidOrExpired == [status |-> 400, detail |-> "Invalid or expired token"]
RespInvalidToken == [status |-> 400, detail |-> "Invalid token"]
RespResetDone == [status |-> 200, success |-> TRUE]
RespRegisteredWithPassword(uid, email, full_name) ==
    [status |-> 201, success |-> TRUE,
     data |-> [id |-> uid, email |-> email, full_name |-> full_name,
               password |-> MakePassword(OldPassword)]]
RespRegistered(uid, email, full_name) ==
    [status |-> 201, success |-> TRUE,
     data |-> [id |-> uid, email |-> email, full_name |-> full_name]]
RespValidationError == [status |-> 400, detail |-> "validation error"]
RespLoggedIn(uid) ==
    [status |-> 200, access |-> <<"access", uid>>, refresh |-> <<"refresh", uid>>]
RespLoginFailed == [status |-> 401, detail |-> "No active account found"]
RespServerError == [status |-> 500, detail |-> "Server Error"]
RespUnauthorized ==
    [status |-> 401, detail |-> "Authentication credentials were not provided."]
RespTokenNotValid ==
    [status |-> 401, detail |-> "Given token not valid for any token type"]


---------------------------------------------------------------------------
(* Initial state: an empty user table and an empty cache *)

NoSave == NoText
FullName == "Test User"

(* full_name is optional: validated_data.get('full_name', '').  The first *)
(* email registers with a name, the others without.                        *)
FullNameOf(email) == IF email = EmailOrder[1] THEN FullName ELSE NoText

Init ==
    /\ users = <<>>
    /\ cache = [k \in CacheKeys |-> Absent]
    /\ inflight = EmptyBag
    /\ out = NoOutput
    /\ issuedFor = [t \in Tokens |-> 0]
    /\ age = [t \in Tokens |-> 0]
    /\ redeemed = [t \in Tokens |-> 0]
    /\ burnt = {}
    /\ lastSave = <<>>

---------------------------------------------------------------------------
(* Registration and login *)

(* RegisterSerializer's validation: an email, a password of min_length 8,  *)
(* and the store's unique email.                                           *)
RegistrationValid(email, password) ==
    /\ email # NoText
    /\ Len(password) >= MinPasswordLength
    /\ GetUserByEmail(email) = 0

(* RegisterView.post *)
Register(email, password) ==
    LET req == [op |-> "register", email |-> email, pw |-> password]
        uid == Len(users) + 1
    IN  IF RegistrationValid(email, password)
        THEN /\ users' = Append(users, [email |-> email,
                                        password |-> MakePassword(password),
                                        full_name |-> FullNameOf(email)])
             /\ lastSave' = Append(lastSave, NoSave)
             /\ out' = Output(req, RespRegistered(uid, email,
                                                  FullNameOf(email)))
             /\ UNCHANGED <<cache, inflight, issuedFor, age, redeemed, burnt>>
        ELSE /\ out' = Output(req, RespValidationError)
             /\ UNCHANGED <<users, cache, inflight, issuedFor, age, redeemed,
                            burnt, lastSave>>

(* The answer of the login view for these credentials in the current state *)
LoginResponse(email, password) ==
    LET uid == GetUserByEmail(email)
    IN  IF uid # 0 /\ CheckPassword(password, users[uid].password)
        THEN RespLoggedIn(uid)
        ELSE RespLoginFailed

(* EmailTokenObtainPairView.post *)
Login(email, password) ==
    /\ out' = Output([op |-> "login", email |-> email, pw |-> password],
                     LoginResponse(email, password))
    /\ UNCHANGED <<users, cache, inflight, issuedFor, age, redeemed, burnt,
                   lastSave>>

(* A request without an Authorization header *)
NoCredential == <<>>

(* JWTAuthentication: the user a bearer token authenticates, 0 if none.   *)
(* Only an access token, signed by a login and within its lifetime, of a   *)
(* user that exists is accepted.                                           *)
AuthenticateAsFirstUser(bearer) ==
    IF bearer # NoCredential /\ bearer[1] = "access" /\ UserExists(bearer[2])
    THEN 1 ELSE 0
Authenticate(bearer) ==
    IF bearer # NoCredential /\ bearer[1] = "access" /\ UserExists(bearer[2])
    THEN bearer[2] ELSE 0

(* UserSerializer(request.user).data *)
RespProfile(uid) ==
    [status |-> 200, id |-> uid, email |-> users[uid].email,
     full_name |-> users[uid].full_name]

(* ProfileView.get behind permissions.IsAuthenticated *)
Profile(bearer) ==
    LET req == [op |-> "profile", bearer |-> bearer]
        uid == Authenticate(bearer)
    IN  /\ out' = Output(req, IF bearer = NoCredential THEN RespUnauthorized
                              ELSE IF uid = 0 THEN RespTokenNotValid
                              ELSE RespProfile(uid))
        /\ UNCHANGED <<users, cache, inflight, issuedFor, age, redeemed, burnt,
                       lastSave>>

---------------------------------------------------------------------------
(* Password reset *)

(* get_random_string(32): a string not returned before *)
GenerateUsedToken == Tokens
GenerateResetToken == {t \in Tokens : issuedFor[t] = 0}

(* forgot_password *)
ForgotPassword(email) ==
    LET req == [op |-> "forgot", email |-> email]
        uid == GetUserByEmail(email)
    IN  IF email = NoText
        THEN /\ out' = Output(req, RespEmailRequired)
             /\ UNCHANGED <<users, cache, inflight, issuedFor, age, redeemed,
                            burnt, lastSave>>
        ELSE IF uid = 0
        THEN /\ out' = Output(req, RespUserNotFound)
             /\ UNCHANGED <<users, cache, inflight, issuedFor, age, redeemed,
                            burnt, lastSave>>
        ELSE \E token \in GenerateResetToken :
             /\ cache' = CacheSet(cache, CacheKey(token), uid, TOKEN_TIMEOUT)
             /\ issuedFor' = [issuedFor EXCEPT ![token] = uid]
             /\ out' = Output(req, RespTokenIssued(token))
             /\ UNCHANGED <<users, inflight, age, redeemed, burnt, lastSave>>

ResetRequest(token, pw) == [op |-> "reset", token |-> token, pw |-> pw]

(* The response to a reset_password request, with the request's history:   *)
(* late, whether a redeem of its token had already answered success when   *)
(* it arrived; retry, whether an earlier redeem of its token had saved a   *)
(* password and then failed to delete the token; wrote, whether this       *)
(* request has saved a password.                                           *)
ResetOutput(token, pw, resp, late, retry, wrote) ==
    [req |-> ResetRequest(token, pw), resp |-> resp,
     hist |-> [late |-> late, retry |-> retry, wrote |-> wrote]]

(* reset_password, line 230: `if not user_id` *)
TokenNeverRejected(user_id) == FALSE
TokenRejected(user_id) == user_id = 0

Later(token) == token \in Tokens /\ redeemed[token] > 0
Retry(token) == token \in burnt

ResetGetUnchecked(token, pw) ==
    /\ BagCardinality(inflight) < MaxInFlight
    /\ LET user_id == CacheGet(cache, CacheKey(token))
       IN  IF TokenRejected(user_id)
           THEN /\ out' = ResetOutput(token, pw, RespInvalidOrExpired,
                                      Later(token), Retry(token), FALSE)
                /\ UNCHANGED inflight
           ELSE /\ out' = NoOutput
                /\ inflight' = inflight (+) SetToBag({
                       [pc |-> "resolved", token |-> token, pw |-> pw,
                        uid |-> user_id, late |-> Later(token),
                        retry |-> Retry(token)]})
    /\ UNCHANGED <<users, cache, issuedFor, age, redeemed, burnt, lastSave>>

(* reset_password, lines 223-231: the field check and cache.get *)
ResetGet(token, pw) ==
    /\ BagCardinality(inflight) < MaxInFlight
    /\ LET user_id == CacheGet(cache, CacheKey(token))
       IN  IF token = NoToken \/ pw = NoText
           THEN /\ out' = Output(ResetRequest(token, pw), RespFieldsRequired)
                /\ UNCHANGED inflight
           ELSE IF TokenRejected(user_id)
           THEN /\ out' = ResetOutput(token, pw, RespInvalidOrExpired,
                                      Later(token), Retry(token), FALSE)
                /\ UNCHANGED inflight
           ELSE /\ out' = NoOutput
                /\ inflight' = inflight (+) SetToBag({
                       [pc |-> "resolved", token |-> token, pw |-> pw,
                        uid |-> user_id, late |-> Later(token),
                        retry |-> Retry(token)]})
    /\ UNCHANGED <<users, cache, issuedFor, age, redeemed, burnt, lastSave>>

ResetSaveSkipped(r) ==
    /\ r.pc = "resolved"
    /\ inflight' = (inflight (-) SetToBag({r}))
                      (+) SetToBag({[r EXCEPT !.pc = "saved"]})
    /\ out' = NoOutput
    /\ UNCHANGED <<users, cache, issuedFor, age, redeemed, burnt, lastSave>>

(* reset_password, lines 233-239: the user's row is loaded, its password   *)
(* set and the row saved                                                   *)
ResetSave(r) ==
    /\ r.pc = "resolved"
    /\ IF ~UserExists(r.uid)
       THEN /\ out' = ResetOutput(r.token, r.pw, RespInvalidToken, r.late,
                                  r.retry, FALSE)
            /\ inflight' = inflight (-) SetToBag({r})
            /\ UNCHANGED <<users, lastSave>>
       ELSE /\ users' = UpdateUserPassword(users, r.uid, r.pw)
            /\ lastSave' = [lastSave EXCEPT ![r.uid] = r.pw]
            /\ inflight' = (inflight (-) SetToBag({r}))
                              (+) SetToBag({[r EXCEPT !.pc = "saved"]})
            /\ out' = NoOutput
    /\ UNCHANGED <<cache, issuedFor, age, redeemed, burnt>>

(* reset_password, lines 240-241: cache.delete and the success response *)
ResetDelete(r) ==
    /\ r.pc = "saved"
    /\ cache' = CacheDelete(cache, CacheKey(r.token))
    /\ redeemed' = [redeemed EXCEPT ![r.token] = IF @ < 2 THEN @ + 1 ELSE @]
    /\ age' = [age EXCEPT ![r.token] = 0]
    /\ out' = ResetOutput(r.token, r.pw, RespResetDone, r.late, r.retry, TRUE)
    /\ inflight' = inflight (-) SetToBag({r})
    /\ UNCHANGED <<users, issuedFor, burnt, lastSave>>

(* TimeStep seconds pass: the store expires what is due.  age counts, up   *)
(* to TOKEN_TIMEOUT, the time an issued token has gone unredeemed (it is   *)
(* 0 again once the token is redeemed).                                    *)
Advance ==
    /\ cache' = CacheAfter(cache, TimeStep)
    /\ age' = [t \in Tokens |->
                 IF issuedFor[t] # 0 /\ redeemed[t] = 0
                    /\ age[t] + TimeStep <= TOKEN_TIMEOUT
                 THEN age[t] + TimeStep
                 ELSE age[t]]
    /\ out' = NoOutput
    /\ UNCHANGED <<users, inflight, issuedFor, redeemed, burnt, lastSave>>

---------------------------------------------------------------------------
(* The store is unreachable: django_redis raises, the view does not catch  *)
(* the exception, and the framework answers 500.                           *)

(* forgot_password, cache.set raises *)
ForgotPasswordUnavailable(email) ==
    /\ email # NoText
    /\ GetUserByEmail(email) # 0
    /\ out' = Output([op |-> "forgot", email |-> email], RespServerError)
    /\ UNCHANGED <<users, cache, inflight, issuedFor, age, redeemed, burnt,
                   lastSave>>

(* reset_password, cache.get raises *)
ResetGetUnavailable(token, pw) ==
    /\ BagCardinality(inflight) < MaxInFlight
    /\ token # NoToken
    /\ pw # NoText
    /\ out' = ResetOutput(token, pw, RespServerError, Later(token), Retry(token),
                          FALSE)
    /\ UNCHANGED <<users, cache, inflight, issuedFor, age, redeemed, burnt,
                   lastSave>>

(* reset_password, cache.delete raises after user.save() *)
ResetDeleteUnavailable(r) ==
    /\ r.pc = "saved"
    /\ burnt' = burnt \cup {r.token}
    /\ out' = ResetOutput(r.token, r.pw, RespServerError, r.late, r.retry, TRUE)
    /\ inflight' = inflight (-) SetToBag({r})
    /\ UNCHANGED <<users, cache, issuedFor, age, redeemed, lastSave>>

---------------------------------------------------------------------------
(* An administrator deletes an account (django.contrib.admin) *)
DeleteUser(uid) ==
    /\ UserExists(uid)
    /\ users' = [users EXCEPT ![uid] = Deleted]
    /\ out' = NoOutput
    /\ UNCHANGED <<cache, inflight, issuedFor, age, redeemed, burnt, lastSave>>

---------------------------------------------------------------------------
(* PasswordResetService: the same flow written as a service layer, with    *)
(* its own key prefix and timeout.  The views do not call it.              *)

SERVICE_CACHE_PREFIX == "pwdreset:"
SERVICE_TOKEN_TIMEOUT == 10 * 60

ServiceCacheKey(token) == <<SERVICE_CACHE_PREFIX, token>>

(* store_reset_token *)
StoreResetToken(c, token, user_id) ==
    CacheSet(c, ServiceCacheKey(token), user_id, SERVICE_TOKEN_TIMEOUT)

(* get_user_id_from_token *)
GetUserIdFromToken(c, token) == CacheGet(c, ServiceCacheKey(token))

(* process_password_reset_request: `if not user` *)
ServiceRequestFails(email) == GetUserByEmail(email) = 0

(* process_password_reset: `if not user_id` *)
ServiceResetFails(token) == TokenRejected(GetUserIdFromToken(cache, token))

(* What a service method returns: (success, error_message[, token]) *)
ServiceFailure(error_message) ==
    [status |-> 0, success |-> FALSE, error |-> error_message]
ServiceSuccess == [status |-> 0, success |-> TRUE]
ServiceIssued(token) == [status |-> 0, success |-> TRUE, token |-> token]

(* process_password_reset_request *)
ProcessPasswordResetRequest(email) ==
    LET req == [op |-> "service_forgot", email |-> email]
    IN  IF ServiceRequestFails(email)
        THEN /\ out' = Output(req, ServiceFailure("User not found"))
             /\ UNCHANGED <<users, cache, inflight, issuedFor, age, redeemed,
                            burnt, lastSave>>
        ELSE \E token \in GenerateResetToken :
             /\ cache' = StoreResetToken(cache, token, GetUserByEmail(email))
             /\ issuedFor' = [issuedFor EXCEPT ![token] = GetUserByEmail(email)]
             /\ out' = Output(req, ServiceIssued(token))
             /\ UNCHANGED <<users, inflight, age, redeemed, burnt, lastSave>>

ServiceResetRequest(token, pw) ==
    [op |-> "service_reset", token |-> token, pw |-> pw]

(* process_password_reset, lines 96-98: get_user_id_from_token *)
ProcessPasswordResetGet(token, pw) ==
    /\ BagCardinality(inflight) < MaxInFlight
    /\ IF ServiceResetFails(token)
       THEN /\ out' = Output(ServiceResetRequest(token, pw),
                             ServiceFailure("Invalid or expired token"))
            /\ UNCHANGED inflight
       ELSE /\ out' = NoOutput
            /\ inflight' = inflight (+) SetToBag({
                   [pc |-> "service_resolved", token |-> token, pw |-> pw,
                    uid |-> GetUserIdFromToken(cache, token),
                    late |-> Later(token), retry |-> Retry(token)]})
    /\ UNCHANGED <<users, cache, issuedFor, age, redeemed, burnt, lastSave>>

(* process_password_reset, lines 100-104: get_user_by_id and               *)
(* update_user_password                                                    *)
ProcessPasswordResetSave(r) ==
    /\ r.pc = "service_resolved"
    /\ IF ~UserExists(r.uid)
       THEN /\ out' = Output(ServiceResetRequest(r.token, r.pw),
                             ServiceFailure("Invalid token"))
            /\ inflight' = inflight (-) SetToBag({r})
            /\ UNCHANGED <<users, lastSave>>
       ELSE /\ users' = UpdateUserPassword(users, r.uid, r.pw)
            /\ lastSave' = [lastSave EXCEPT ![r.uid] = r.pw]
            /\ inflight' = (inflight (-) SetToBag({r}))
                              (+) SetToBag({[r EXCEPT !.pc = "service_saved"]})
            /\ out' = NoOutput
    /\ UNCHANGED <<cache, issuedFor, age, redeemed, burnt>>

(* process_password_reset, lines 105-107: invalidate_reset_token and the   *)
(* success result                                                          *)
ProcessPasswordResetDelete(r) ==
    /\ r.pc = "service_saved"
    /\ cache' = CacheDelete(cache, ServiceCacheKey(r.token))
    /\ redeemed' = [redeemed EXCEPT ![r.token] = IF @ < 2 THEN @ + 1 ELSE @]
    /\ age' = [age EXCEPT ![r.token] = 0]
    /\ out' = Output(ServiceResetRequest(r.token, r.pw), ServiceSuccess)
    /\ inflight' = inflight (-) SetToBag({r})
    /\ UNCHANGED <<users, issuedFor, burnt, lastSave>>

---------------------------------------------------------------------------
(* PasswordResetService.invalidate_reset_token, called on its own.  The    *)
(* method returns nothing; the step records that nothing was raised and    *)
(* whether cache.delete found the key.                                     *)
InvalidateResetToken(token) ==
    /\ cache' = CacheDelete(cache, ServiceCacheKey(token))
    /\ out' = Output([op |-> "invalidate", token |-> token],
                     [status |-> 0, raised |-> FALSE,
                      found |-> GetUserIdFromToken(cache, token) # 0])
    /\ UNCHANGED <<users, inflight, issuedFor, age, redeemed, burnt, lastSave>>

---------------------------------------------------------------------------
(* Specifications *)

(* Registration requests: the next new email or one already registered,   *)
(* with a valid password; no email; a password that is too short.          *)
RegisterInputs ==
    LET known == {EmailOrder[i] : i \in 1..Len(users)}
        next == IF Len(users) < Len(EmailOrder)
                THEN {EmailOrder[Len(users) + 1]} ELSE {}
    IN  {[email |-> e, pw |-> OldPassword] : e \in known \cup next \cup {NoText}}
        \cup {[email |-> e, pw |-> WeakPassword] : e \in next}

Next ==
    \/ \E i \in RegisterInputs : Register(i.email, i.pw)
    \/ \E email \in Emails, password \in LoginPasswords : Login(email, password)
    \/ \E email \in EmailInputs : ForgotPassword(email)
    \/ \E i \in ResetInputs : ResetGet(i.token, i.pw)
    \/ \E r \in BagToSet(inflight) : ResetSave(r)
    \/ \E r \in BagToSet(inflight) : ResetDelete(r)
    \/ Advance

(* The store is always reachable *)
Spec == Init /\ [][Next]_vars

(* Clients also send new passwords shorter than MinPasswordLength *)
NextWeak ==
    \/ Next
    \/ \E token \in Tokens : ResetGet(token, WeakPassword)

SpecWeak == Init /\ [][NextWeak]_vars

NextFault ==
    \/ \E i \in RegisterInputs : Register(i.email, i.pw)
    \/ \E email \in Emails : ForgotPassword(email)
    \/ \E token \in Tokens : ResetGet(token, NewPassword)
    \/ \E r \in BagToSet(inflight) : ResetSave(r)
    \/ \E r \in BagToSet(inflight) : ResetDelete(r)
    \/ Advance
    \/ \E email \in Emails : ForgotPasswordUnavailable(email)
    \/ \E token \in Tokens : ResetGetUnavailable(token, NewPassword)
    \/ \E r \in BagToSet(inflight) : ResetDeleteUnavailable(r)

(* The store may fail at any call *)
SpecFault == Init /\ [][NextFault]_vars

(* The email that registers next, if any is left *)
NewRegistrations ==
    IF Len(users) < Len(EmailOrder) THEN {EmailOrder[Len(users) + 1]} ELSE {}

NextDelete ==
    \/ \E email \in NewRegistrations : Register(email, OldPassword)
    \/ \E email \in Emails : ForgotPassword(email)
    \/ \E token \in Tokens : ResetGet(token, NewPassword)
    \/ \E r \in BagToSet(inflight) : ResetSave(r)
    \/ \E r \in BagToSet(inflight) : ResetDelete(r)
    \/ Advance
    \/ \E uid \in UserIds : DeleteUser(uid)

(* Accounts may be deleted at any time *)
SpecDelete == Init /\ [][NextDelete]_vars

(* The credentials a client can present: none, or a token that a login  *)
(* of a registered user has returned (a login changes nothing, so every    *)
(* registered user's tokens can have been obtained).                       *)
ProfileInputs ==
    {NoCredential}
    \cup {RespLoggedIn(uid).access : uid \in UserIds}
    \cup {RespLoggedIn(uid).refresh : uid \in UserIds}

NextProfile ==
    \/ \E email \in NewRegistrations : Register(email, OldPassword)
    \/ \E email \in Emails, password \in LoginPasswords : Login(email, password)
    \/ \E bearer \in ProfileInputs : Profile(bearer)
    \/ \E email \in Emails : ForgotPassword(email)
    \/ \E token \in Tokens : ResetGet(token, NewPassword)
    \/ \E r \in BagToSet(inflight) : ResetSave(r)
    \/ \E r \in BagToSet(inflight) : ResetDelete(r)

(* Clients also read their profile *)
SpecProfile == Init /\ [][NextProfile]_vars

NextOrder ==
    \/ \E email \in NewRegistrations : Register(email, OldPassword)
    \/ \E email \in Emails : ForgotPassword(email)
    \/ \E token \in Tokens, pw \in LoginPasswords : ResetGet(token, pw)
    \/ \E r \in BagToSet(inflight) : ResetSave(r)
    \/ \E r \in BagToSet(inflight) : ResetDelete(r)

(* Clients choose between two new passwords of valid length *)
SpecOrder == Init /\ [][NextOrder]_vars

NextInvalidate ==
    \/ \E email \in NewRegistrations : Register(email, OldPassword)
    \/ \E email \in Emails : ForgotPassword(email)
    \/ \E token \in Tokens : InvalidateResetToken(token)
    \/ Advance

(* Tokens are issued, invalidated by direct calls of the service, and      *)
(* expire                                                                  *)
SpecInvalidate == Init /\ [][NextInvalidate]_vars

NextReset ==
    \/ \E email \in NewRegistrations : Register(email, OldPassword)
    \/ \E email \in Emails : ForgotPassword(email)
    \/ \E token \in Tokens : ResetGet(token, NewPassword)
    \/ \E r \in BagToSet(inflight) : ResetSave(r)
    \/ \E r \in BagToSet(inflight) : ResetDelete(r)
    \/ Advance

(* Registration and the reset flow of well-formed requests *)
SpecReset == Init /\ [][NextReset]_vars

(* The reset flow of the first user *)
NextLive ==
    \/ Register(EmailOrder[1], OldPassword)
    \/ ForgotPassword(EmailOrder[1])
    \/ \E token \in Tokens : ResetGet(token, NewPassword)
    \/ \E r \in BagToSet(inflight) : ResetSave(r)
    \/ \E r \in BagToSet(inflight) : ResetDelete(r)
    \/ Advance

(* Time does not stop: the store's clock runs whatever the clients do, so  *)
(* an Advance that would change something is eventually taken.  Nothing   *)
(* is assumed about the clients or the request handlers.                   *)
SpecLive == Init /\ [][NextLive]_vars /\ WF_vars(Advance)

(* The requests of one client, with and without their fields *)
ServiceEmailInputs == {EmailOrder[1], NoText}

NextService ==
    \/ Register(EmailOrder[1], OldPassword)
    \/ \E email \in ServiceEmailInputs : ForgotPassword(email)
    \/ \E i \in ResetInputs : ResetGet(i.token, i.pw)
    \/ \E r \in BagToSet(inflight) : ResetSave(r)
    \/ \E r \in BagToSet(inflight) : ResetDelete(r)
    \/ \E email \in ServiceEmailInputs : ProcessPasswordResetRequest(email)
    \/ \E i \in ResetInputs : ProcessPasswordResetGet(i.token, i.pw)
    \/ \E r \in BagToSet(inflight) : ProcessPasswordResetSave(r)
    \/ \E r \in BagToSet(inflight) : ProcessPasswordResetDelete(r)

(* The same requests are served by the views and by the service *)
SpecService == Init /\ [][NextService]_vars

NextFields ==
    \/ \E email \in NewRegistrations : Register(email, OldPassword)
    \/ \E email \in EmailInputs : ForgotPassword(email)
    \/ \E i \in ResetInputs : ResetGet(i.token, i.pw)
    \/ \E r \in BagToSet(inflight) : ResetSave(r)
    \/ \E r \in BagToSet(inflight) : ResetDelete(r)
    \/ Advance

(* The reset flow with requests that lack a field *)
SpecFields == Init /\ [][NextFields]_vars

TypeOK ==
    /\ Len(lastSave) = Len(users)
    /\ BagCardinality(inflight) <= MaxInFlight
    /\ \A r \in BagToSet(inflight) : r.pc \in {"resolved", "saved"}
    /\ \A t \in Tokens : issuedFor[t] \in 0..Len(users)

---------------------------------------------------------------------------
(* Properties *)

KeyOf(t) == <<"pwdreset:", t>>

(* A well-formed redeem of token t is answered in this step *)
RedeemAnswered(t) ==
    /\ out'.req.op = "reset"
    /\ out'.req.token = t
    /\ out'.req.pw # ""

(* The answer to a redeem of a token the cache does not hold *)
IsInvalidOrExpired(resp) ==
    resp = [status |-> 400, detail |-> "Invalid or expired token"]

(* C1: single use, sequential.  While the store is reachable, a redeem of  *)
(* an issued token that is answered while the token is unredeemed and its  *)
(* TTL has not elapsed is answered with success; a redeem that arrives     *)
(* after a redeem of the same token has answered success is answered 400   *)
(* 'Invalid or expired token', never gets past the token lookup and has    *)
(* written no password.                                                    *)
C1_FirstSucceeds ==
    \A t \in Tokens :
        (issuedFor[t] # 0 /\ redeemed[t] = 0 /\ age[t] < 10 * 60
            /\ RedeemAnswered(t))
        => out'.resp = [status |-> 200, success |-> TRUE]

C1_LaterFails ==
    /\ (out.req.op = "reset" /\ out.hist.late)
        => (IsInvalidOrExpired(out.resp) /\ ~out.hist.wrote)
    /\ \A r \in BagToSet(inflight) : ~r.late

C1_SingleUseSequential == [][C1_FirstSucceeds]_vars /\ []C1_LaterFails

C1_Witness ==
    /\ out.req.op = "reset"
    /\ out.hist.late
    /\ redeemed[out.req.token] = 1
    /\ IsInvalidOrExpired(out.resp)

(* C2: single use, concurrent.  Of the redeems of one token, at most one   *)
(* is answered with success, however their steps interleave.               *)
C2_NeverBothSucceed == \A t \in Tokens : redeemed[t] <= 1

(* C3: after a successful redeem for a user, with no later password save   *)
(* for that user, a login with the redeem's new password is answered 200   *)
(* with an access and a refresh token, and a login with any other          *)
(* password, the old one included, is answered 401.                        *)
C3_LoginAfterRedeem ==
    out.req.op = "login" =>
        \A uid \in 1..Len(users) :
            (/\ users[uid].email = out.req.email
             /\ lastSave[uid] # ""
             /\ \E t \in Tokens : issuedFor[t] = uid /\ redeemed[t] > 0)
            => /\ out.req.pw = lastSave[uid]
                    => /\ out.resp.status = 200
                       /\ {"access", "refresh"} \subseteq DOMAIN out.resp
               /\ out.req.pw # lastSave[uid] => out.resp.status = 401

C3_Witness ==
    /\ out.req.op = "login"
    /\ out.req.pw = "pw12345678"
    /\ out.resp.status = 401
    /\ \E uid \in 1..Len(users) :
          /\ users[uid].email = out.req.email
          /\ lastSave[uid] = "newpw123456"
          /\ \E t \in Tokens : issuedFor[t] = uid /\ redeemed[t] > 0


(* A redeem of token t arrives and is answered at once in this step *)
RedeemRefusedAtOnce(t) == RedeemAnswered(t) /\ inflight' = inflight

(* A redeem of token t passes the token lookup in this step *)
RedeemResolved(t) ==
    \E r \in BagToSet(inflight') :
        /\ r.token = t
        /\ r.pc = "resolved"
        /\ CopiesIn(r, inflight') > CopiesIn(r, inflight)

ExpiredUnredeemed(t) == issuedFor[t] # 0 /\ redeemed[t] = 0 /\ age[t] >= 10 * 60

(* C4: expiry.  A token that went unredeemed for its 10 minutes is absent  *)
(* from the cache, and a redeem that arrives with it has the outcome of a  *)
(* redeem that arrives with a token consumed by a successful redemption:   *)
(* it does not pass the lookup, is answered 400 'Invalid or expired        *)
(* token', and neither the users nor the cache change.                     *)
C4_ExpiredAbsent ==
    \A t \in Tokens : ExpiredUnredeemed(t) => cache[KeyOf(t)].uid = 0

C4_SameOutcome ==
    \A t \in Tokens :
        (ExpiredUnredeemed(t) \/ redeemed[t] > 0)
        => /\ ~RedeemResolved(t)
           /\ RedeemRefusedAtOnce(t)
                => /\ IsInvalidOrExpired(out'.resp)
                   /\ users' = users
                   /\ cache' = cache

C4_Expiry == []C4_ExpiredAbsent /\ [][C4_SameOutcome]_vars

C4_Witness ==
    /\ out.req.op = "reset"
    /\ out.req.token \in Tokens
    /\ ExpiredUnredeemed(out.req.token)
    /\ IsInvalidOrExpired(out.resp)

(* C5: a redeem with a token that was never issued does not pass the       *)
(* lookup, is answered 400 'Invalid or expired token', and neither the     *)
(* users nor the cache change.                                             *)
C5_NeverIssued ==
    \A t \in Tokens :
        issuedFor[t] = 0
        => /\ ~RedeemResolved(t)
           /\ RedeemAnswered(t)
                => /\ IsInvalidOrExpired(out'.resp)
                   /\ users' = users
                   /\ cache' = cache

C5_NeverIssuedRedeem == [][C5_NeverIssued]_vars

C5_Witness ==
    /\ out.req.op = "reset"
    /\ out.req.token \in Tokens
    /\ issuedFor[out.req.token] = 0
    /\ IsInvalidOrExpired(out.resp)

Registered(email) == \E i \in 1..Len(users) : users[i].email = email

(* C6: requestReset for an email with no registered user is answered with  *)
(* status 200, as for a registered email, with success false and no token  *)
(* field, and the cache does not change.                                   *)
C6_UnknownEmail ==
    (out'.req.op = "forgot" /\ out'.req.email # "")
    => /\ out'.resp.status = 200
       /\ ~Registered(out'.req.email)
            => /\ out'.resp = [status |-> 200, success |-> FALSE]
               /\ cache' = cache

C6_RequestResetUnknownEmail == [][C6_UnknownEmail]_vars

C6_Witness ==
    /\ out.req.op = "forgot"
    /\ ~Registered(out.req.email)
    /\ out.resp = [status |-> 200, success |-> FALSE]
    /\ Len(users) > 0

(* C7: requestReset for a registered email adds exactly one cache entry,   *)
(* under a key that was absent, mapping the generated token to the id of   *)
(* the user with that email with 10 minutes to live, and answers success   *)
(* true with that token; while the token is neither redeemed nor expired,  *)
(* the cache resolves it to that user's id.                                *)
C7_Issue ==
    (out'.req.op = "forgot" /\ Registered(out'.req.email))
    => \E t \in Tokens, uid \in 1..Len(users) :
          /\ users[uid].email = out'.req.email
          /\ cache[KeyOf(t)].uid = 0
          /\ cache' = [cache EXCEPT ![KeyOf(t)] = [uid |-> uid, ttl |-> 10 * 60]]
          /\ out'.resp = [status |-> 200, success |-> TRUE, token |-> t]

C7_Resolves ==
    \A t \in Tokens :
        (issuedFor[t] # 0 /\ redeemed[t] = 0 /\ age[t] < 10 * 60)
        => cache[KeyOf(t)].uid = issuedFor[t]

C8_WeakPasswordRejected ==
    /\ \A r \in BagToSet(inflight) : Len(r.pw) >= 8
    /\ \A uid \in 1..Len(users) : lastSave[uid] = "" \/ Len(lastSave[uid]) >= 8

(* C9: once a redeem has saved the password and then failed to delete the  *)
(* token, a redeem that arrives later with the same token is treated as    *)
(* consumed: it does not pass the token lookup and is answered with a      *)
(* failure.                                                                *)
C9_RetryIsConsumed ==
    /\ \A r \in BagToSet(inflight) : ~r.retry
    /\ (out.req.op = "reset" /\ out.hist.retry) => out.resp.status # 200

(* C10: a store failure during a redeem is a server error and not 'token   *)
(* not found': 'Invalid or expired token' is answered only when the cache  *)
(* does not hold the token, and a redeem answered with a server error has  *)
(* changed no password hash.                                               *)
C10_StoreUnavailable ==
    /\ (out.req.op = "reset" /\ IsInvalidOrExpired(out.resp))
        => (out.req.token \in Tokens => cache[KeyOf(out.req.token)].uid = 0)
    /\ (out.req.op = "reset" /\ out.resp.status = 500) => ~out.hist.wrote


---------------------------------------------------------------------------
(* What an observer of a response sees besides the token's value: the      *)
(* status, the names of the body's fields and the success flag.            *)
Observed(resp) ==
    [status |-> resp.status,
     fields |-> DOMAIN resp,
     success |-> IF "success" \in DOMAIN resp THEN resp.success ELSE FALSE]

(* C11: the answer of requestReset to an email is, to an observer, the     *)
(* same whether or not the email has an account: every answer to a request *)
(* that names an email has the status, the fields and the success flag of  *)
(* the answer given for a registered email.                                *)
C11_AntiEnumeration ==
    (out.req.op = "forgot" /\ out.req.email # "")
        => Observed(out.resp)
             = [status |-> 200, fields |-> {"status", "success", "token"},
                success |-> TRUE]


(* C12: a redeem whose token resolved to a user whose row is gone changes  *)
(* no password and is answered exactly as a redeem of an absent token:     *)
(* 400 with the body 'Invalid or expired token'.                           *)
C12_Step ==
    \A r \in BagToSet(inflight) :
        (/\ r.pc = "resolved"
         /\ users[r.uid] = [email |-> "", password |-> <<>>, full_name |-> ""]
         /\ CopiesIn(r, inflight') < CopiesIn(r, inflight))
            => /\ IsInvalidOrExpired(out'.resp)
               /\ users' = users

C12_DeletedUserSameError == [][C12_Step]_vars


(* C13: a token leaves the cache only by a successful redeem of it or by   *)
(* the end of its time to live, and a token that has been issued and is    *)
(* absent from the cache never resolves again, whatever is requested.      *)
C13_Step ==
    \A t \in Tokens :
        /\ (issuedFor[t] # 0 /\ cache[KeyOf(t)].uid = 0)
              => cache'[KeyOf(t)].uid = 0
        /\ (cache[KeyOf(t)].uid # 0 /\ cache'[KeyOf(t)].uid = 0)
              => \/ /\ RedeemAnswered(t)
                    /\ out'.resp = [status |-> 200, success |-> TRUE]
                 \/ /\ out'.req.op = "none"
                    /\ age'[t] >= 10 * 60

C13_TokenStateMachine == [][C13_Step]_vars

(* A token has expired, and a later requestReset of the same user has been *)
(* answered with another token.                                            *)
C13_Witness ==
    \E t \in Tokens :
        /\ issuedFor[t] # 0
        /\ age[t] >= 10 * 60
        /\ cache[KeyOf(t)].uid = 0
        /\ out.req.op = "forgot"
        /\ out.resp.status = 200
        /\ "token" \in DOMAIN out.resp
        /\ out.resp.token # t
        /\ issuedFor[out.resp.token] = issuedFor[t]


(* C14: a registration with an email that has no account yet and a        *)
(* password of at least 8 characters, with or without a full name, is      *)
(* answered 201 with success true and data of exactly id, email and        *)
(* full_name, the email being the submitted one; right after it the login  *)
(* view accepts the same email and password; and every login with the      *)
(* registered password of an account whose password was never reset is     *)
(* answered 200 with an access and a refresh token.                        *)
C14_Register ==
    (/\ out'.req.op = "register"
     /\ out'.req.email # ""
     /\ Len(out'.req.pw) >= 8
     /\ ~Registered(out'.req.email))
        => /\ DOMAIN out'.resp = {"status", "success", "data"}
           /\ out'.resp.status = 201
           /\ out'.resp.success = TRUE
           /\ DOMAIN out'.resp.data = {"id", "email", "full_name"}
           /\ out'.resp.data.email = out'.req.email
           /\ \A e \in Emails, p \in {"pw12345678", "newpw123456"} :
                 (e = out'.req.email /\ p = out'.req.pw)
                    => /\ LoginResponse(e, p)'.status = 200
                       /\ {"access", "refresh"}
                             \subseteq DOMAIN LoginResponse(e, p)'

C14_Login ==
    (/\ out.req.op = "login"
     /\ out.req.pw = "pw12345678"
     /\ \E uid \in 1..Len(users) :
           users[uid].email = out.req.email /\ lastSave[uid] = "")
        => /\ out.resp.status = 200
           /\ {"access", "refresh"} \subseteq DOMAIN out.resp

C14_RegisterThenLogin == [][C14_Register]_vars /\ []C14_Login

(* A login has succeeded with the password of a registration that gave no *)
(* full name.                                                             *)
C14_Witness ==
    /\ out.req.op = "login"
    /\ out.req.pw = "pw12345678"
    /\ out.resp.status = 200
    /\ \E uid \in 1..Len(users) :
          /\ users[uid].email = out.req.email
          /\ users[uid].full_name = ""
          /\ lastSave[uid] = ""


(* C15: a profile request without credentials is answered 401 with no      *)
(* profile field; a profile is returned only to a bearer of an access      *)
(* token; and a request carrying the access token of a login is answered   *)
(* with the id, email and full_name of the user who logged in.             *)
C15_Profile ==
    out.req.op = "profile"
        => /\ out.req.bearer = <<>>
                => /\ out.resp.status = 401
                   /\ DOMAIN out.resp \cap {"id", "email", "full_name"} = {}
           /\ out.resp.status = 200
                => \E uid \in 1..Len(users) : out.req.bearer = <<"access", uid>>
           /\ \A uid \in 1..Len(users) :
                out.req.bearer = <<"access", uid>>
                   => out.resp = [status |-> 200, id |-> uid,
                                  email |-> users[uid].email,
                                  full_name |-> users[uid].full_name]

(* The profile request that follows a successful login, with its token *)
C15_AfterLogin ==
    (/\ out.req.op = "login"
     /\ out.resp.status = 200
     /\ out'.req.op = "profile"
     /\ out'.req.bearer = out.resp.access)
        => /\ out'.resp.status = 200
           /\ out'.resp.email = out.req.email
           /\ DOMAIN out'.resp = {"status", "id", "email", "full_name"}

C15_ProfileAuthenticated == []C15_Profile /\ [][C15_AfterLogin]_vars

(* The second user has read their profile with their own access token,    *)
(* after a reset of their password.                                        *)
C15_Witness ==
    /\ out.req.op = "profile"
    /\ out.req.bearer = <<"access", 2>>
    /\ out.resp.status = 200
    /\ out.resp.email = "reset_test@test.com"
    /\ lastSave[2] # ""


(* C16, as stated: in every state where a redeem has answered success, the *)
(* token is absent and the user's password is the new one of that redeem.  *)
C16_AnsweredMeansNew ==
    (out.req.op = "reset" /\ out.resp = [status |-> 200, success |-> TRUE])
        => /\ cache[KeyOf(out.req.token)].uid = 0
           /\ users[issuedFor[out.req.token]].password
                 = <<"pbkdf2_sha256", out.req.pw>>

(* C16, amended: a redeem saves the password before it deletes the token,  *)
(* and deletes the token in the step in which it answers success.  In      *)
(* every state where a redeem has answered success the token is absent,    *)
(* the redeem has saved its password, and the user's password is the one   *)
(* saved last for that user: the redeem's own, unless another redeem of    *)
(* the same user has saved a different one since.                          *)
C16_Answered ==
    (out.req.op = "reset" /\ out.resp = [status |-> 200, success |-> TRUE])
        => LET uid == issuedFor[out.req.token]
           IN  /\ cache[KeyOf(out.req.token)].uid = 0
               /\ out.hist.wrote
               /\ lastSave[uid] # ""
               /\ users[uid].password = <<"pbkdf2_sha256", lastSave[uid]>>
               /\ lastSave[uid] = out.req.pw
                     => users[uid].password = <<"pbkdf2_sha256", out.req.pw>>

C16_Saved ==
    \A r \in BagToSet(inflight) :
        r.pc = "saved"
           => /\ lastSave[r.uid] # ""
              /\ users[r.uid].password = <<"pbkdf2_sha256", lastSave[r.uid]>>

C16_Step ==
    \A t \in Tokens :
        (RedeemAnswered(t) /\ out'.resp = [status |-> 200, success |-> TRUE])
            => /\ users' = users
               /\ \E r \in BagToSet(inflight) :
                     /\ r.pc = "saved"
                     /\ r.token = t
                     /\ r.pw = out'.req.pw
                     /\ CopiesIn(r, inflight') < CopiesIn(r, inflight)

C16_Ordering == []C16_Answered /\ []C16_Saved /\ [][C16_Step]_vars

(* A redeem has answered success while the user's password is the one     *)
(* another redeem saved after it.                                          *)
C16_Witness ==
    /\ out.req.op = "reset"
    /\ out.resp = [status |-> 200, success |-> TRUE]
    /\ lastSave[issuedFor[out.req.token]] # out.req.pw
    /\ cache[KeyOf(out.req.token)].uid = 0


(* C17: a step changes the password hash of a user only if it is the save  *)
(* of a redeem of a token issued for that user, it changes no other        *)
(* user's hash, and that redeem then answers success; the steps that       *)
(* answer a registration, a requestReset, a login, a profile request or a  *)
(* failed redeem change no hash of an existing user.                       *)
C17_Step ==
    /\ \A uid \in 1..Len(users) :
          users'[uid].password # users[uid].password
             => /\ \E r \in BagToSet(inflight) :
                      /\ r.pc = "resolved"
                      /\ r.uid = uid
                      /\ issuedFor[r.token] = uid
                      /\ CopiesIn(r, inflight') < CopiesIn(r, inflight)
                      /\ users'[uid].password = <<"pbkdf2_sha256", r.pw>>
                /\ \A other \in 1..Len(users) :
                      other # uid => users'[other] = users[other]
    /\ (\/ out'.req.op \in {"register", "forgot", "login", "profile"}
        \/ (out'.req.op = "reset" /\ out'.resp.status # 200))
          => \A uid \in 1..Len(users) : users'[uid] = users[uid]

C17_SavedSucceeds ==
    (out.req.op = "reset" /\ out.hist.wrote) => out.resp.status = 200

C18_AsIssued ==
    \A t \in Tokens :
        cache[KeyOf(t)].uid # 0 => cache[KeyOf(t)].uid = issuedFor[t]

C18_Step ==
    \A t \in Tokens :
        (cache[KeyOf(t)].uid # 0 /\ cache'[KeyOf(t)].uid # 0)
            => cache'[KeyOf(t)].uid = cache[KeyOf(t)].uid

C18_TokenImmutable == []C18_AsIssued /\ [][C18_Step]_vars

(* A token issued for the first user is still in the cache, part of its    *)
(* time gone, when a requestReset of the second user is answered.          *)
C18_Witness ==
    \E t \in Tokens :
        /\ cache[KeyOf(t)].uid = 1
        /\ cache[KeyOf(t)].ttl < 10 * 60
        /\ out.req.op = "forgot"
        /\ out.req.email = "reset_test@test.com"
        /\ out.resp.status = 200
        /\ "token" \in DOMAIN out.resp
        /\ out.resp.token # t
        /\ cache[KeyOf(out.resp.token)].uid = 2


(* C19: invalidate(token) raises nothing, leaves the token absent and      *)
(* every other entry as it was; when the token is absent (never issued,    *)
(* expired or invalidated before) it leaves the whole cache unchanged, and *)
(* invalidating once more after any invalidation changes nothing.          *)
C19_Step ==
    \A t \in Tokens :
        (out'.req.op = "invalidate" /\ out'.req.token = t)
            => /\ ~out'.resp.raised
               /\ cache'[KeyOf(t)] = [uid |-> 0, ttl |-> 0]
               /\ \A u \in Tokens : u # t => cache'[KeyOf(u)] = cache[KeyOf(u)]
               /\ cache[KeyOf(t)].uid = 0 => cache' = cache
               /\ CacheDelete(cache', KeyOf(t)) = cache'

C19_InvalidateIdempotent == [][C19_Step]_vars

(* A token that was issued, has not expired and is absent is invalidated   *)
(* again, while another token is in the cache.                             *)
C19_Witness ==
    \E t \in Tokens :
        /\ out.req.op = "invalidate"
        /\ out.req.token = t
        /\ ~out.resp.found
        /\ issuedFor[t] # 0
        /\ age[t] < 10 * 60
        /\ \E u \in Tokens : cache[KeyOf(u)].uid # 0


(* C20: as time advances, every token that is in the cache is eventually   *)
(* absent from it, consumed by a redeem or expired, and from then on stays *)
(* absent.                                                                 *)
C20_EventuallyAbsent ==
    \A t \in Tokens :
        (cache[KeyOf(t)].uid # 0) ~> [](cache[KeyOf(t)].uid = 0)

(* One token has been consumed by a redeem and another has expired         *)
C20_Witness ==
    \E t, u \in Tokens :
        /\ issuedFor[t] # 0 /\ redeemed[t] = 1 /\ cache[KeyOf(t)].uid = 0
        /\ issuedFor[u] # 0 /\ redeemed[u] = 0 /\ age[u] >= 10 * 60
        /\ cache[KeyOf(u)].uid = 0


(* C21: the step in which a redeem answers success leaves the cache entry  *)
(* of every other token as it was, and a token that is in the cache,       *)
(* whatever has been redeemed for its user before, is not refused: a       *)
(* redeem of it passes cache.get and, once answered, has succeeded.        *)
C21_Step ==
    \A t \in Tokens :
        /\ (RedeemAnswered(t) /\ out'.resp = [status |-> 200, success |-> TRUE])
              => \A u \in Tokens :
                    u # t => cache'[KeyOf(u)] = cache[KeyOf(u)]
        /\ (RedeemAnswered(t) /\ cache[KeyOf(t)].uid # 0)
              => out'.resp = [status |-> 200, success |-> TRUE]
        /\ (RedeemAnswered(t) /\ inflight' = inflight)
              => cache[KeyOf(t)].uid = 0

C21_OnlyOwnToken == [][C21_Step]_vars

(* Two tokens of one user: the first was redeemed, and a redeem of the     *)
(* second, which had stayed in the cache, has now answered success.        *)
C21_Witness ==
    \E t, u \in Tokens :
        /\ t # u
        /\ issuedFor[t] # 0
        /\ issuedFor[t] = issuedFor[u]
        /\ redeemed[t] = 1
        /\ redeemed[u] = 1
        /\ out.req.op = "reset"
        /\ out.req.token = u
        /\ out.resp = [status |-> 200, success |-> TRUE]
        /\ ~out.hist.late


(* A response or result that reports success *)
Succeeded(resp) == "success" \in DOMAIN resp /\ resp.success

(* C22: whatever the views do, PasswordResetService does: from the same    *)
(* state and for the same call, forgot_password and                        *)
(* process_password_reset_request both succeed or both fail and leave the  *)
(* same cache, and reset_password and process_password_reset go on or      *)
(* fail together at the token lookup, resolve the same user, save the same *)
(* hash and delete the same cache entry.                                   *)
C22_Step ==
    /\ out'.req.op = "forgot"
          => /\ Succeeded(out'.resp) <=> ~ServiceRequestFails(out'.req.email)
             /\ Succeeded(out'.resp)
                   => cache' = StoreResetToken(cache, out'.resp.token,
                                               GetUserByEmail(out'.req.email))
             /\ ~Succeeded(out'.resp) => cache' = cache
    /\ (out'.req.op = "reset" /\ inflight' = inflight)
          => ServiceResetFails(out'.req.token)
    /\ \A r \in BagToSet(inflight') :
          (r.pc = "resolved" /\ CopiesIn(r, inflight') > CopiesIn(r, inflight))
             => /\ ~ServiceResetFails(r.token)
                /\ r.uid = GetUserIdFromToken(cache, r.token)
    /\ \A r \in BagToSet(inflight') :
          (r.pc = "saved" /\ CopiesIn(r, inflight') > CopiesIn(r, inflight))
             => users' = UpdateUserPassword(users, r.uid, r.pw)
    /\ \A t \in Tokens :
          (RedeemAnswered(t) /\ out'.resp = [status |-> 200, success |-> TRUE])
             => cache' = CacheDelete(cache, ServiceCacheKey(t))

C22_ViewsAsService == [][C22_Step]_vars


(* C23: a forgot_password request without an email, and a reset_password   *)
(* request without a token or without a password, is answered 400 in the   *)
(* step that receives it, and that step changes neither the cache nor a    *)
(* user's row; no request without a field is ever in flight.               *)
C23_Step ==
    ((out'.req.op = "forgot" /\ out'.req.email = "")
     \/ (out'.req.op = "reset" /\ (out'.req.token = 0 \/ out'.req.pw = "")))
        => /\ out'.resp.status = 400
           /\ cache' = cache
           /\ users' = users
           /\ inflight' = inflight

C23_NotInFlight ==
    \A r \in BagToSet(inflight) : r.token # 0 /\ r.pw # ""

C23_MissingFields == [][C23_Step]_vars /\ []C23_NotInFlight

(* A redeem of a token that is in the cache, sent without a password, has  *)
(* been refused, and the token is still there.                             *)
C23_Witness ==
    /\ out.req.op = "reset"
    /\ out.req.pw = ""
    /\ out.req.token \in Tokens
    /\ out.resp.status = 400
    /\ cache[KeyOf(out.req.token)].uid # 0

=============================================================================
